---- MODULE Spec2Model ----
(***************************************************************************)
(* Tree<T> and BinaryTree<T> of gwenphalan/data-structures as a heap of    *)
(* node objects.  A node is an index into the sequences value, children,   *)
(* parent and kind; a reference is a node index or Null.                   *)
(***************************************************************************)
EXTENDS Integers, Sequences, FiniteSets

VARIABLES value, children, parent, kind, call, inserted, inverts, done, out

vars == <<value, children, parent, kind, call, inserted, inverts, done, out>>

\* ---------------------------------------------------------------- bounds
\* Largest number of nodes the tree under test grows to.
MaxNodes == 3
\* Tree values are 1..MaxVal and null.
MaxVal == 2
\* BinaryTree values (keys) are 1..MaxKey.
MaxKey == 4
\* Largest number of invert() calls in one run.
MaxInverts == 2
\* Largest number of nodes in the constructor/setter heap.
MaxHeapNodes == 3

\* ------------------------------------------------------------- constants
\* JavaScript null: an absent child slot, a null value, "not found".
Null == 0
\* JavaScript undefined: a field never assigned, a missing argument, void.
Undefined == -1
\* The root of the tree under test is the first object allocated.
root == 1

NoError == "none"
InvalidValue == "The value of a tree cannot be undefined."
AddNotSupported == "BinaryTree.add is not a function. Use BinaryTree.insert instead."

Vals == 1..MaxVal
Keys == 1..MaxKey

\* ---------------------------------------------------------------- helpers
Heap == [value |-> value, children |-> children, parent |-> parent, kind |-> kind]

Nodes(h) == 1..Len(h.value)

\* Array.prototype.reverse
Reverse(s) == [i \in 1..Len(s) |-> s[Len(s) + 1 - i]]

\* Math.max(...xs) of a non-empty array
MathMax(xs) == CHOOSE m \in {xs[i] : i \in 1..Len(xs)} : \A j \in 1..Len(xs) : xs[j] <= m

\* The result of a call: the heap it leaves, what it returns, what it throws.
Result(h, r, e) == [heap |-> h, ret |-> r, err |-> e]

\* ------------------------------------------------------------ constructors
\* new Tree(v): a node with no children; throws on undefined.
NewTree(h, v) ==
    IF v = Undefined THEN Result(h, Undefined, InvalidValue)
    ELSE Result([value |-> Append(h.value, v),
                 children |-> Append(h.children, <<>>),
                 parent |-> Append(h.parent, Undefined),
                 kind |-> Append(h.kind, "Tree")],
                Len(h.value) + 1, NoError)

\* new BinaryTree(v, left, right): super(v), then children = [left, right].
NewBinaryTree(h, v, left, right) ==
    IF v = Undefined THEN Result(h, Undefined, InvalidValue)
    ELSE Result([value |-> Append(h.value, v),
                 children |-> Append(h.children, <<left, right>>),
                 parent |-> Append(h.parent, Undefined),
                 kind |-> Append(h.kind, "BinaryTree")],
                Len(h.value) + 1, NoError)

\* get left / get right
Left(h, n) == h.children[n][1]
Right(h, n) == h.children[n][2]

\* set left(c): if (c) c.parent = this; this.children[0] = c
SetLeft(h, n, c) ==
    LET p == IF c # Null THEN [h.parent EXCEPT ![c] = n] ELSE h.parent
    IN  [h EXCEPT !.parent = p, !.children = [h.children EXCEPT ![n][1] = c]]

\* set right(c): if (c) c.parent = this; this.children[1] = c
SetRight(h, n, c) ==
    LET p == IF c # Null THEN [h.parent EXCEPT ![c] = n] ELSE h.parent
    IN  [h EXCEPT !.parent = p, !.children = [h.children EXCEPT ![n][2] = c]]

\* -------------------------------------------------------------- Tree.add
\* this.children.push(new Tree(v))
TreeAdd(h, n, v) ==
    LET made == NewTree(h, v)
    IN  IF made.err # NoError THEN made
        ELSE Result([made.heap EXCEPT !.children[n] = Append(@, made.ret)],
                    Undefined, NoError)

\* Mutant of BinaryTreeAdd: the override is missing, Tree.add is inherited.
BinaryTreeAddInherited(h, n, v) == TreeAdd(h, n, v)

\* BinaryTree.add(): always throws.
BinaryTreeAdd(h, n, v) == Result(h, Undefined, AddNotSupported)

\* Dynamic dispatch of add on the receiver's class.
AddCall(h, n, v) ==
    IF h.kind[n] = "BinaryTree" THEN BinaryTreeAdd(h, n, v) ELSE TreeAdd(h, n, v)

\* ------------------------------------------------------ BinaryTree.insert
\* Mutant of insert: "else if (value >= this.value)" sends an equal value right.
RECURSIVE insertKeepingEqual(_, _, _)
insertKeepingEqual(h, n, v) ==
    IF v < h.value[n] THEN
        IF Left(h, n) = Null
        THEN LET made == NewBinaryTree(h, v, Null, Null)
             IN  SetLeft(made.heap, n, made.ret)
        ELSE insertKeepingEqual(h, Left(h, n), v)
    ELSE
        IF Right(h, n) = Null
        THEN LET made == NewBinaryTree(h, v, Null, Null)
             IN  SetRight(made.heap, n, made.ret)
        ELSE insertKeepingEqual(h, Right(h, n), v)

\* Mutant of insert: the two comparisons are exchanged.
RECURSIVE insertMirrored(_, _, _)
insertMirrored(h, n, v) ==
    IF v > h.value[n] THEN
        IF Left(h, n) = Null
        THEN LET made == NewBinaryTree(h, v, Null, Null)
             IN  SetLeft(made.heap, n, made.ret)
        ELSE insertMirrored(h, Left(h, n), v)
    ELSE IF v < h.value[n] THEN
        IF Right(h, n) = Null
        THEN LET made == NewBinaryTree(h, v, Null, Null)
             IN  SetRight(made.heap, n, made.ret)
        ELSE insertMirrored(h, Right(h, n), v)
    ELSE h

RECURSIVE insert(_, _, _)
insert(h, n, v) ==
    IF v < h.value[n] THEN
        IF Left(h, n) = Null
        THEN LET made == NewBinaryTree(h, v, Null, Null)
             IN  SetLeft(made.heap, n, made.ret)
        ELSE insert(h, Left(h, n), v)
    ELSE IF v > h.value[n] THEN
        IF Right(h, n) = Null
        THEN LET made == NewBinaryTree(h, v, Null, Null)
             IN  SetRight(made.heap, n, made.ret)
        ELSE insert(h, Right(h, n), v)
    ELSE h

\* ------------------------------------------------------------ Tree.invert
RECURSIVE invert(_, _)
RECURSIVE invertEach(_, _, _)
\* this.children.forEach(child => child?.invert()), from index i on
invertEach(h, n, i) ==
    IF i > Len(h.children[n]) THEN h
    ELSE LET c == h.children[n][i]
         IN  invertEach(IF c = Null THEN h ELSE invert(h, c), n, i + 1)

\* Mutant of invert: the absent slots are filtered out before reversing.
invertFiltering(h, n) ==
    LET present(c) == c # Null
    IN  invertEach([h EXCEPT !.children[n] = Reverse(SelectSeq(@, present))], n, 1)

invert(h, n) ==
    invertEach([h EXCEPT !.children[n] = Reverse(@)], n, 1)

\* ------------------------------------------------------------ Tree.height
RECURSIVE height(_, _)
height(h, n) ==
    IF Len(h.children[n]) = 0 THEN 0
    ELSE LET heights == [i \in 1..Len(h.children[n]) |->
                            IF h.children[n][i] = Null THEN 0
                            ELSE height(h, h.children[n][i])]
         IN  MathMax(heights) + 1

\* ----------------------------------------------------- BinaryTree.maxNodes
maxNodes(h, n) == 2 ^ (height(h, n) + 1) - 1

\* ------------------------------------------------------------ Tree.search
\* A predicate is the set of values it accepts: predicate(v) is v \in P.
\* search returns what the call returns (ret) and, in call order, the nodes
\* whose value the predicate was evaluated on (visited).
RECURSIVE search(_, _, _)
RECURSIVE searchChildren(_, _, _, _)
\* Mutant of searchChildren: no return inside the loop, the last hit wins.
searchChildrenToEnd(h, n, i, P) ==
    IF i > Len(h.children[n]) THEN [ret |-> Null, visited |-> <<>>]
    ELSE LET child == h.children[n][i]
         IN  IF child = Null THEN searchChildren(h, n, i + 1, P)
             ELSE LET result == search(h, child, P)
                      rest == searchChildren(h, n, i + 1, P)
                  IN  [ret |-> IF rest.ret # Null THEN rest.ret ELSE result.ret,
                       visited |-> result.visited \o rest.visited]

\* for (let child of this.children) { ... }, from index i on
searchChildren(h, n, i, P) ==
    IF i > Len(h.children[n]) THEN [ret |-> Null, visited |-> <<>>]
    ELSE LET child == h.children[n][i]
         IN  IF child = Null THEN searchChildren(h, n, i + 1, P)
             ELSE LET result == search(h, child, P)
                  IN  IF result.ret # Null THEN result
                      ELSE LET rest == searchChildren(h, n, i + 1, P)
                           IN  [ret |-> rest.ret,
                                visited |-> result.visited \o rest.visited]

search(h, n, P) ==
    IF h.value[n] \in P THEN [ret |-> h.value[n], visited |-> <<n>>]
    ELSE LET below == searchChildren(h, n, 1, P)
         IN  [ret |-> below.ret, visited |-> <<n>> \o below.visited]

\* ---------------------------------------------------------- Tree.toString
\* A string is a sequence of characters.  The box-drawing characters of the
\* source are written in ASCII: "+" for U+251C, "L" for U+2514, "-" for
\* U+2500, "|" for U+2502.
NL == "\n"
TeeDash == <<"+", "-">>
ElbowDash == <<"L", "-">>
BarSpace == <<"|", " ">>
TwoSpaces == <<" ", " ">>

Digit == <<"0", "1", "2", "3", "4", "5", "6", "7", "8", "9">>

\* `${value}` of a number (decimal) or of null
RECURSIVE Decimal(_)
Decimal(k) == IF k < 10 THEN <<Digit[k + 1]>>
              ELSE Decimal(k \div 10) \o <<Digit[(k % 10) + 1]>>

TemplateString(v) == IF v = Null THEN <<"n", "u", "l", "l">> ELSE Decimal(v)

\* s.replace(/\n/g, `\n${prefix}`)
RECURSIVE ReplaceNewlines(_, _)
ReplaceNewlines(s, prefix) ==
    IF s = <<>> THEN <<>>
    ELSE (IF Head(s) = NL THEN <<NL>> \o prefix ELSE <<Head(s)>>)
         \o ReplaceNewlines(Tail(s), prefix)

\* Mutant of ValuePrefix: the two branches are exchanged.
ValuePrefixSwapped(lastChild) == IF lastChild THEN TeeDash ELSE ElbowDash

\* let valuePrefix = lastChild ? ... : ...
ValuePrefix(lastChild) == IF lastChild THEN ElbowDash ELSE TeeDash
\* let childPrefix = lastChild ? ... : ...
ChildPrefix(lastChild) == IF lastChild THEN TwoSpaces ELSE BarSpace

\* this.children.filter(child => child !== null)
NonNull(s) == LET present(c) == c # Null IN SelectSeq(s, present)

\* toString() called without a renderer, as every call site modelled does.
RECURSIVE toString(_, _)
RECURSIVE renderChildren(_, _, _, _)
\* for (let i = 0; i < children.length; i++) { ... }, from index i on
renderChildren(h, kids, i, output) ==
    IF i > Len(kids) THEN output
    ELSE LET childOutput == toString(h, kids[i])
             lastChild == (i = Len(kids))
             prefixed == ValuePrefix(lastChild)
                         \o ReplaceNewlines(childOutput, ChildPrefix(lastChild))
         IN  renderChildren(h, kids, i + 1, output \o <<NL>> \o prefixed)

toString(h, n) ==
    LET output == TemplateString(h.value[n])
        kids == NonNull(h.children[n])
    IN  IF Len(kids) = 0 THEN output ELSE renderChildren(h, kids, 1, output)

\* -------------------------------------------------------------- the state
\* The last call: its name, its argument (insert), what it returned or threw.
Called(o, a, r, e) == [op |-> o, arg |-> a, ret |-> r, err |-> e]

Install(h) ==
    /\ value' = h.value
    /\ children' = h.children
    /\ parent' = h.parent
    /\ kind' = h.kind

EmptyHeap == [value |-> <<>>, children |-> <<>>, parent |-> <<>>, kind |-> <<>>]

\* let tree = new Tree(v)   or   let tree = new BinaryTree(v)
Init ==
    /\ \E k \in {"Tree", "BinaryTree"} :
         \E v \in (IF k = "Tree" THEN Vals \cup {Null} ELSE Keys) :
            LET made == IF k = "Tree" THEN NewTree(EmptyHeap, v)
                        ELSE NewBinaryTree(EmptyHeap, v, Null, Null)
            IN  /\ value = made.heap.value
                /\ children = made.heap.children
                /\ parent = made.heap.parent
                /\ kind = made.heap.kind
                /\ inserted = {v}
    /\ call = Called("new", Undefined, Undefined, NoError)
    /\ inverts = 0
    /\ done = <<>>
    /\ out = <<>>

\* node.add(v) on any node; v may be undefined.
Add(n, v) ==
    /\ LET res == AddCall(Heap, n, v)
       IN  /\ kind[n] = "Tree" => Len(res.heap.value) <= MaxNodes
           /\ Install(res.heap)
           /\ call' = Called("add", Undefined, res.ret, res.err)
    /\ UNCHANGED <<inserted, inverts, done, out>>

\* tree.insert(v)
Insert(v) ==
    /\ kind[root] = "BinaryTree"
    /\ Len(insert(Heap, root, v).value) <= MaxNodes
    /\ Install(insert(Heap, root, v))
    /\ call' = Called("insert", v, Undefined, NoError)
    /\ inserted' = inserted \cup {v}
    /\ UNCHANGED <<inverts, done, out>>

\* tree.invert()
Invert ==
    /\ inverts < MaxInverts
    /\ Install(invert(Heap, root))
    /\ call' = Called("invert", Undefined, Undefined, NoError)
    /\ inverts' = inverts + 1
    /\ UNCHANGED <<inserted, done, out>>

\* tree.height()
Height ==
    /\ call' = Called("height", Undefined, height(Heap, root), NoError)
    /\ UNCHANGED <<value, children, parent, kind, inserted, inverts, done, out>>

\* tree.maxNodes()
MaxNodesCall ==
    /\ kind[root] = "BinaryTree"
    /\ call' = Called("maxNodes", Undefined, maxNodes(Heap, root), NoError)
    /\ UNCHANGED <<value, children, parent, kind, inserted, inverts, done, out>>

\* Predicates offered to search.
Preds == SUBSET (Vals \cup {Null})

\* tree.search(v => P.has(v))
Search(P) ==
    /\ call' = Called("search", Undefined, search(Heap, root, P).ret, NoError)
    /\ UNCHANGED <<value, children, parent, kind, inserted, inverts, done, out>>

Next ==
    \/ \E n \in Nodes(Heap), v \in Vals \cup {Null, Undefined} : Add(n, v)
    \/ \E v \in Keys : Insert(v)
    \/ Invert
    \/ Height
    \/ MaxNodesCall
    \/ \E P \in Preds : Search(P)

Spec == Init /\ [][Next]_vars

\* ------------------------------------------- the toString example program
\* let tree = new Tree(5)
DocRoot == 5
\* The add statements of the example: the receiver as a path of child
\* positions from tree (children[0] is position 1), and the value added.
DocProgram ==
    << [target |-> <<>>, arg |-> 3],
       [target |-> <<>>, arg |-> 7],
       [target |-> <<>>, arg |-> 2],
       [target |-> <<>>, arg |-> 4],
       [target |-> <<1>>, arg |-> 1],
       [target |-> <<1>>, arg |-> 6],
       [target |-> <<2>>, arg |-> 8] >>

\* tree.children[i]...: the node a path names, Undefined when there is none.
RECURSIVE Resolve(_, _, _)
Resolve(h, n, path) ==
    IF path = <<>> THEN n
    ELSE IF Head(path) > Len(h.children[n]) THEN Undefined
    ELSE Resolve(h, h.children[n][Head(path)], Tail(path))

InitDoc ==
    /\ LET made == NewTree(EmptyHeap, DocRoot)
       IN  /\ value = made.heap.value
           /\ children = made.heap.children
           /\ parent = made.heap.parent
           /\ kind = made.heap.kind
    /\ inserted = {DocRoot}
    /\ call = Called("new", Undefined, Undefined, NoError)
    /\ inverts = 0
    /\ done = <<>>
    /\ out = <<>>

\* Statement i of the example, each run at most once, in any order in which
\* its receiver exists.
DocAdd(i) ==
    /\ \A j \in 1..Len(done) : done[j] # i
    /\ LET n == Resolve(Heap, root, DocProgram[i].target)
       IN  /\ n # Undefined
           /\ LET res == AddCall(Heap, n, DocProgram[i].arg)
              IN  /\ Install(res.heap)
                  /\ call' = Called("add", Undefined, res.ret, res.err)
    /\ done' = Append(done, i)
    /\ out' = <<>>
    /\ UNCHANGED <<inserted, inverts>>

\* console.log(tree.toString())
DocToString ==
    /\ out' = toString(Heap, root)
    /\ call' = Called("toString", Undefined, Undefined, NoError)
    /\ UNCHANGED <<value, children, parent, kind, inserted, inverts, done>>

NextDoc ==
    \/ \E i \in 1..Len(DocProgram) : DocAdd(i)
    \/ DocToString

SpecDoc == InitDoc /\ [][NextDoc]_vars

\* --------------------------------- BinaryTree objects wired by the caller
\* Nodes held in some child slot.
Attached(h) == {h.children[n][i] : n \in Nodes(h), i \in 1..2} \ {Null}

\* The root of the tree a node is in.
RECURSIVE RootOf(_, _)
RootOf(h, c) ==
    IF c \in Attached(h)
    THEN RootOf(h, CHOOSE n \in Nodes(h) : \E i \in 1..2 : h.children[n][i] = c)
    ELSE c

\* Nodes that may be handed over as a child: whole trees, or nothing.
Free(h) == (Nodes(h) \ Attached(h)) \cup {Null}

InitHeap ==
    /\ \E v \in Vals :
         LET made == NewBinaryTree(EmptyHeap, v, Null, Null)
         IN  /\ value = made.heap.value
             /\ children = made.heap.children
             /\ parent = made.heap.parent
             /\ kind = made.heap.kind
             /\ inserted = {v}
    /\ call = Called("new", Undefined, Undefined, NoError)
    /\ inverts = 0
    /\ done = <<>>
    /\ out = <<>>

\* new BinaryTree(v, left, right)
Construct(v, left, right) ==
    /\ Len(value) < MaxHeapNodes
    /\ left = Null \/ left # right
    /\ LET made == NewBinaryTree(Heap, v, left, right)
       IN  /\ Install(made.heap)
           /\ call' = Called("new", Undefined, made.ret, made.err)
    /\ UNCHANGED <<inserted, inverts, done, out>>

\* n.left = c
AssignLeft(n, c) ==
    /\ c = Null \/ c # RootOf(Heap, n)
    /\ Install(SetLeft(Heap, n, c))
    /\ call' = Called("set left", Undefined, Undefined, NoError)
    /\ UNCHANGED <<inserted, inverts, done, out>>

\* n.right = c
AssignRight(n, c) ==
    /\ c = Null \/ c # RootOf(Heap, n)
    /\ Install(SetRight(Heap, n, c))
    /\ call' = Called("set right", Undefined, Undefined, NoError)
    /\ UNCHANGED <<inserted, inverts, done, out>>

\* n.insert(v)
InsertAt(n, v) ==
    /\ Len(insert(Heap, n, v).value) <= MaxHeapNodes
    /\ Install(insert(Heap, n, v))
    /\ call' = Called("insert", v, Undefined, NoError)
    /\ UNCHANGED <<inserted, inverts, done, out>>

\* n.invert()
InvertAt(n) ==
    /\ inverts < MaxInverts
    /\ Install(invert(Heap, n))
    /\ call' = Called("invert", Undefined, Undefined, NoError)
    /\ inverts' = inverts + 1
    /\ UNCHANGED <<inserted, done, out>>

NextHeap ==
    \/ \E v \in Vals, left \in Free(Heap), right \in Free(Heap) :
          Construct(v, left, right)
    \/ \E n \in Nodes(Heap), c \in Free(Heap) : AssignLeft(n, c)
    \/ \E n \in Nodes(Heap), c \in Free(Heap) : AssignRight(n, c)
    \/ \E n \in Nodes(Heap), v \in Vals : InsertAt(n, v)
    \/ \E n \in Nodes(Heap) : InvertAt(n)

SpecHeap == InitHeap /\ [][NextHeap]_vars

\* ======================================================= reference notions
\* The children a node really has.
Kids(h, n) == {h.children[n][i] : i \in 1..Len(h.children[n])} \ {Null}

SetMax(S) == CHOOSE m \in S : \A x \in S : x <= m
SetMin(S) == CHOOSE m \in S : \A x \in S : m <= x

\* Number of edges on the longest path from n down to a leaf.
RECURSIVE EdgeHeight(_, _)
EdgeHeight(h, n) ==
    IF Kids(h, n) = {} THEN 0
    ELSE 1 + SetMax({EdgeHeight(h, c) : c \in Kids(h, n)})

\* Depth-first pre-order: the node, then its children's subtrees in storage
\* order, absent slots skipped.
RECURSIVE PreOrder(_, _)
RECURSIVE PreOrderFrom(_, _, _)
PreOrderFrom(h, n, i) ==
    IF i > Len(h.children[n]) THEN <<>>
    ELSE (IF h.children[n][i] = Null THEN <<>> ELSE PreOrder(h, h.children[n][i]))
         \o PreOrderFrom(h, n, i + 1)

PreOrder(h, n) == <<n>> \o PreOrderFrom(h, n, 1)

\* The nodes of the subtree at n (none for an absent slot).
Subtree(h, n) ==
    IF n = Null THEN {}
    ELSE LET pre == PreOrder(h, n) IN {pre[i] : i \in 1..Len(pre)}

\* In-order traversal of a two-slot tree: left subtree, node, right subtree.
RECURSIVE InOrder(_, _)
InOrder(h, n) ==
    IF n = Null THEN <<>>
    ELSE InOrder(h, h.children[n][1]) \o <<h.value[n]>> \o InOrder(h, h.children[n][2])

\* The members of a set of numbers in strictly increasing order.
RECURSIVE Ascending(_)
Ascending(S) ==
    IF S = {} THEN <<>> ELSE <<SetMin(S)>> \o Ascending(S \ {SetMin(S)})

TwoSlots(h) == \A n \in Nodes(h) : Len(h.children[n]) = 2

Ordered(h) ==
    \A n \in Nodes(h) :
        /\ \A m \in Subtree(h, h.children[n][1]) : h.value[m] < h.value[n]
        /\ \A m \in Subtree(h, h.children[n][2]) : h.value[m] > h.value[n]

IsBinary == kind[root] = "BinaryTree"

\* Positions of the pre-order pre whose value satisfies P.
Hits(h, pre, P) == {i \in 1..Len(pre) : h.value[pre[i]] \in P}

\* found is what a first-match scan of the pre-order pre for P gives: the
\* value of the first hit with the nodes up to it visited, or null with
\* every node visited.
FirstMatchScan(h, pre, P, found) ==
    LET hits == Hits(h, pre, P)
    IN  IF hits = {}
        THEN found.ret = Null /\ found.visited = pre
        ELSE LET first == SetMin(hits)
             IN  /\ found.ret = h.value[pre[first]]
                 /\ found.visited = SubSeq(pre, 1, first)

NoNullValue(h, pre) == \A i \in 1..Len(pre) : h.value[pre[i]] # Null

\* Lines joined by newlines.
RECURSIVE JoinLines(_)
JoinLines(lines) ==
    IF Len(lines) = 1 THEN lines[1]
    ELSE lines[1] \o <<NL>> \o JoinLines(Tail(lines))

\* Every statement of the example has run, in the order written.
DocBuilt == done = [i \in 1..Len(DocProgram) |-> i]

\* ================================================================== claims

\* C1: after any inserts into a fresh single-node BinaryTree (and no invert),
\* the in-order traversal lists exactly the distinct values among the root
\* value and the inserted values, in strictly increasing order, each once.
InOrderIsSortedDistinct ==
    (IsBinary /\ inverts = 0) => InOrder(Heap, root) = Ascending(inserted)

\* C1 witness: a duplicate of the root value was just inserted into a tree
\* of three nodes.
InsertedDuplicate ==
    /\ IsBinary /\ inverts = 0
    /\ call.op = "insert" /\ call.arg = value[root]
    /\ Len(value) = 3 /\ Cardinality(inserted) = 3

\* C2 (as claimed): height() returns the number of edges on the longest path
\* from the node to a descendant leaf, 0 when every child slot is absent.
HeightCountsEdges ==
    call.op = "height" => call.ret = EdgeHeight(Heap, root)

\* C3 (as claimed): maxNodes() returns 2^(h+1) - 1 for h the number of edges
\* on the longest root-to-leaf path.
MaxNodesOfEdgeHeight ==
    call.op = "maxNodes" => call.ret = 2 ^ (EdgeHeight(Heap, root) + 1) - 1

\* C4: on a tree without null values, search evaluates the predicate in
\* pre-order, stops at the first node that satisfies it and returns its
\* value, and returns null after visiting every node once when none does.
SearchStopsAtFirstMatch ==
    \A n \in Nodes(Heap) :
        LET pre == PreOrder(Heap, n)
        IN  NoNullValue(Heap, pre) =>
                \A P \in Preds : FirstMatchScan(Heap, pre, P, search(Heap, n, P))

\* C4 witness: a search of the root has returned a value after looking at
\* more than one node, with a later node that matches left unvisited.
SearchSkippedLaterMatch ==
    /\ call.op = "search" /\ call.ret # Null
    /\ LET pre == PreOrder(Heap, root)
       IN  /\ NoNullValue(Heap, pre)
           /\ \E P \in Preds :
                LET found == search(Heap, root, P)
                IN  /\ found.ret = call.ret
                    /\ Len(found.visited) > 1
                    /\ \E i \in Hits(Heap, pre, P) : i > Len(found.visited)

\* C5: invert() twice on the root leaves every node's children sequence,
\* slot by slot, and every node's value as they were.
InvertTwiceRestores ==
    invert(invert(Heap, root), root) = Heap

\* C5 witness: invert() has run on a tree in which some node holds a child
\* in one slot and nothing in another.
InvertedLopsided ==
    /\ call.op = "invert"
    /\ Len(value) >= 3
    /\ \E n \in Nodes(Heap) :
         /\ children[n] # Reverse(children[n])
         /\ \E i \in 1..Len(children[n]) : children[n][i] = Null

BinaryAddThrowsAndKeeps ==
    [][(call'.op = "add" /\ IsBinary) =>
        /\ call'.err = AddNotSupported
        /\ UNCHANGED <<value, children, parent, kind>>]_vars

\* C7 witness: add() has thrown on a BinaryTree built by inserts and inverted.
BinaryAddThrew ==
    /\ IsBinary /\ call.op = "add" /\ call.err = AddNotSupported
    /\ Len(value) >= 3 /\ inverts > 0

\* C8 (as claimed): under any insert() and invert() calls on the root every
\* node has two slots, smaller values to the left and greater to the right.
OrderedUnderInsertAndInvert ==
    IsBinary => (TwoSlots(Heap) /\ Ordered(Heap))

\* C8 (amended): every node always has two slots, and the order holds as
\* long as invert() has not been called.
OrderedUntilInverted ==
    IsBinary => (TwoSlots(Heap) /\ (inverts = 0 => Ordered(Heap)))

\* C8 witness: a tree of three nodes with a child in each slot of the root,
\* built by inserts alone.
BuiltByInsertsOnly ==
    /\ IsBinary /\ inverts = 0 /\ call.op = "insert"
    /\ Len(value) = 3 /\ children[root][1] # Null /\ children[root][2] # Null

\* C9 (as claimed): every node held in a left or right slot has its parent
\* reference set to the holder, however it was attached.
ParentRefersToHolder ==
    \A n \in Nodes(Heap) : \A i \in 1..2 :
        children[n][i] # Null => parent[children[n][i]] = n

\* C10 (as claimed): for values that may be null, search returns null exactly
\* when no node satisfies the predicate, and otherwise the value of the
\* first node in pre-order that does.
SearchNullIffNoMatch ==
    call.op = "search" =>
        \A P \in Preds :
            LET pre == PreOrder(Heap, root)
                hits == Hits(Heap, pre, P)
                found == search(Heap, root, P)
            IN  /\ (found.ret = Null) <=> (hits = {})
                /\ hits # {} => found.ret = value[pre[SetMin(hits)]]
====
